---- MODULE Spec2Model ----
(***************************************************************************)
(* Model of the core of the store in src/src/main.go: the keyspace with    *)
(* its per-key reader/writer locks and creation gate, the command          *)
(* registry, and the per-connection dispatcher loop (handleConnection).    *)
(*                                                                         *)
(* The specifications share the variables:                                 *)
(*   Spec            the keyspace lock protocol, concurrent callers        *)
(*   RegistrySpec    LoadCommands followed by getCommand lookups           *)
(*   DispatcherSpec  handleConnection on concurrent connections            *)
(*   PubSubSpec      subscriptions, publishes and connection teardown      *)
(*   ReplicationSpec the leader's dispatcher and the followers' apply path *)
(*   LinkedListSpec  Add and Remove calls on a utils.LinkedList            *)
(*   AcceptSpec      accepted connections drawing their connection IDs     *)
(*   ContentionSpec  the lock protocol on a keyspace of several keys       *)
(*   ReleaseSpec     the same with contexts that are never cancelled       *)
(***************************************************************************)
EXTENDS Integers, Sequences, FiniteSets, TLC

(***************************************************************************)
(* Bounds                                                                  *)
(***************************************************************************)
NumCallers == 2
NumKeys == 1

Callers == 1..NumCallers
Keys == 1..NumKeys
\* one RWMutex per key, and one more so that a replaced lock would show
LockIds == 1..(NumKeys + 1)

\* "no goroutine" / nil pointer
NONE == 0
NULL == 0
\* the value of a key the store has no entry for
NoValue == <<>>
\* outcome of a map read that the runtime detects as racing with a map write
RACE == 0 - 1

VARIABLES
    \* ---- Server fields (main.go:33-54)
    store,              \* server.store
    keyLocks,           \* server.keyLocks : key -> *sync.RWMutex (NULL = no entry)
    keyCreationLock,    \* server.keyCreationLock : goroutine holding it, or NONE
    \* ---- heap of sync.RWMutex objects and the map write in progress
    rwmutex,            \* lock object -> [w : writer held, r : number of readers]
    nextLock,           \* number of RWMutex objects allocated so far
    mapWrite,           \* <<>> or <<key, lock>> : assignment to keyLocks in progress
    \* ---- the goroutines calling the keyspace API
    kpc,                \* position of each caller
    kkey,               \* key argument of the call in progress
    ctxDone,            \* ctx.Done() of the call in progress is closed
    ctxCause,           \* context.Cause(ctx) of the call in progress
    kret,               \* the caller's latest call and the (bool, error) it returned
    held,               \* what each caller has acquired and not yet released
    installs,           \* number of times a lock was installed for a key
    fault,              \* "none", or the fatal error that ended the process
    \* ---- command registry (main.go:42) and its loading phase
    commands,           \* server.commands : name -> ServerCommand
    regPhase,           \* "loading" (LoadModules) or "serving"
    loads,              \* number of LoadCommands calls made
    registered,            \* registrations made so far, in order
    returned,           \* name -> results getCommand has returned for it
    \* ---- cluster state seen by the dispatcher
    clustered,          \* server.IsInCluster()
    raftLeader,         \* this node is the consensus leader
    raftLog,            \* entries submitted with raft.Apply, in order
    committed,          \* entries the leader's apply path has executed, in order
    \* ---- the other nodes of the cluster
    fstore,             \* store of each follower
    fapplied,           \* number of committed entries each follower has applied
    flive,              \* the follower is running
    \* ---- a utils.LinkedList and the calls made on it
    llist,              \* the list: ring, head, tail and the nodes allocated
    lop,                \* the latest call: <<"Add" or "Remove", value>>
    ref,                \* reference sequence: append on Add, delete first on Remove
    lfault,             \* "none", or how the latest call failed to return
    \* ---- StartTCP's accept loop and the head of handleConnection
    connID,             \* server.connID : atomic.Uint64
    apc,                \* position of each accepted connection's goroutine
    cid,                \* cid of each connection (0 before connID.Add returns)
    ctxConnID,          \* ctx.Value("ConnectionID") of each connection
    \* ---- handleConnection, one goroutine per connection
    dpc,                \* position of each connection's read loop
    readErr,            \* err of the iteration's utils.ReadMessage
    authz,              \* what the iteration asked the ACL, and its answer
    msg,                \* message
    cmd,                \* cmd
    command,            \* command
    synchronize,        \* synchronize
    out,                \* bytes written and flushed to the client, per response
    nRead,              \* reads made so far, over all connections
    decoded,            \* frames of the connection that reached utils.Decode
    done,               \* what each finished iteration of the loop did
    \* ---- server.PubSub, the pub/sub engine
    channelIndex,       \* channel -> connections subscribed to it
    patternIndex,       \* pattern -> connections subscribed to it
    queue,              \* outbound delivery queue of each connection
    reads,              \* messages each subscriber has read, in order
    subArgs,            \* channels of each connection's SUBSCRIBE, in order
    nPub                \* publishes made so far

kvars == <<store, keyLocks, keyCreationLock, rwmutex, nextLock, mapWrite,
           kpc, kkey, ctxDone, ctxCause, kret, held, installs, fault>>

\* the keyspace state the dispatcher itself never touches
klocks == <<keyLocks, keyCreationLock, rwmutex, nextLock, mapWrite,
            kpc, kkey, ctxDone, ctxCause, kret, held, installs>>

rvars == <<commands, regPhase, loads, registered, returned>>

dvars == <<clustered, raftLeader, raftLog, committed, dpc, msg, cmd, command,
           synchronize, out, nRead, decoded, done, readErr, authz>>

pvars == <<channelIndex, patternIndex, queue, reads, subArgs, nPub>>

fvars == <<fstore, fapplied, flive>>

lvars == <<llist, lop, ref, lfault>>

avars == <<connID, apc, cid, ctxConnID>>

vars == <<kvars, rvars, dvars, pvars, fvars, lvars, avars>>

(***************************************************************************)
(* sync.RWMutex and sync.Mutex                                             *)
(***************************************************************************)
NewRWMutex == [w |-> FALSE, r |-> 0]

\* RWMutex.TryLock succeeds only when there is neither a writer nor a reader
TryLockIgnoringReaders(m) == ~m.w
TryLock(m) == ~m.w /\ m.r = 0

\* RWMutex.TryRLock succeeds when no writer holds the lock
TryRLock(m) == ~m.w

\* Mutex.Lock on keyCreationLock returns only when no goroutine holds it
GateAvailableNoExclusion == TRUE
GateAvailable == keyCreationLock = NONE

(***************************************************************************)
(* Reads of the keyLocks map.  The map is a plain Go map: a read that      *)
(* overlaps an assignment is a data race, which the runtime may report as  *)
(* the fatal error "concurrent map read and map write" or let through      *)
(* with either the old or the new entry.                                   *)
(***************************************************************************)
MapRead(k) ==
    IF mapWrite = <<>>
    THEN {keyLocks[k]}
    ELSE {RACE, keyLocks[k]} \cup (IF mapWrite[1] = k THEN {mapWrite[2]} ELSE {})

Crash(reason) ==
    /\ fault' = reason
    /\ UNCHANGED <<store, keyLocks, keyCreationLock, rwmutex, nextLock, mapWrite,
                   kpc, kkey, ctxDone, ctxCause, kret, held, installs>>

ReadFault(v) ==
    IF v = RACE THEN "concurrent map read and map write"
    ELSE "nil pointer dereference"

\* the errors a context is cancelled with, and the zero value of (bool, error)
CtxCauses == { <<"context canceled">>, <<"context deadline exceeded">> }
NoReturn == [call |-> "none", ok |-> FALSE, err |-> <<>>]

\* context.Cause(ctx)
CauseAlwaysCanceled(c) == <<"context canceled">>
Cause(c) == ctxCause[c]

\* the call returns (ok, err); its argument and context go out of scope
Return(c, ok, err) ==
    /\ kret' = [kret EXCEPT ![c] = [call |-> kpc[c], ok |-> ok, err |-> err]]
    /\ kpc' = [kpc EXCEPT ![c] = "idle"]
    /\ kkey' = [kkey EXCEPT ![c] = 1]
    /\ ctxDone' = [ctxDone EXCEPT ![c] = FALSE]
    /\ ctxCause' = [ctxCause EXCEPT ![c] = <<>>]

(***************************************************************************)
(* KeyLock / KeyRLock (main.go:56-70, 76-90): one iteration of the poll    *)
(* loop.  select takes the ctx.Done() case when it is ready, the default   *)
(* case (TryLock) otherwise; a failed try waits for the ticker and loops.  *)
(***************************************************************************)
PollBody(c, mode, releaseGate) ==
    LET k == kkey[c]
        gate == IF releaseGate THEN NONE ELSE keyCreationLock
    IN
    IF ctxDone[c]
    THEN \* return false, context.Cause(ctx)
         /\ Return(c, FALSE, Cause(c))
         /\ keyCreationLock' = gate
         /\ UNCHANGED <<store, keyLocks, rwmutex, nextLock, mapWrite,
                        held, installs, fault>>
    ELSE \E v \in MapRead(k) :
         IF v \in {RACE, NULL}
         THEN Crash(ReadFault(v))
         ELSE IF (IF mode = "w" THEN TryLock(rwmutex[v]) ELSE TryRLock(rwmutex[v]))
         THEN \* return true, nil
              /\ rwmutex' = [rwmutex EXCEPT ![v] =
                     IF mode = "w" THEN [@ EXCEPT !.w = TRUE]
                     ELSE [@ EXCEPT !.r = @ + 1]]
              /\ held' = [held EXCEPT ![c][k] = mode]
              /\ Return(c, TRUE, <<>>)
              /\ keyCreationLock' = gate
              /\ UNCHANGED <<store, keyLocks, nextLock, mapWrite,
                             installs, fault>>
         ELSE UNCHANGED kvars  \* <-ticker.C, then the next iteration

StartCall(c, k, pc) ==
    /\ kpc[c] = "idle"
    /\ held[c][k] = "none"
    /\ kpc' = [kpc EXCEPT ![c] = pc]
    /\ kkey' = [kkey EXCEPT ![c] = k]
    /\ ctxDone' = [ctxDone EXCEPT ![c] = FALSE]
    /\ kret' = [kret EXCEPT ![c] = NoReturn]
    /\ UNCHANGED <<store, keyLocks, keyCreationLock, rwmutex, nextLock, mapWrite,
                   ctxCause, held, installs, fault>>

CallKeyLock(c, k) == StartCall(c, k, "KeyLock")

KeyLock(c) ==
    /\ kpc[c] = "KeyLock"
    /\ PollBody(c, "w", FALSE)

CallKeyRLock(c, k) == StartCall(c, k, "KeyRLock")

KeyRLock(c) ==
    /\ kpc[c] = "KeyRLock"
    /\ PollBody(c, "r", FALSE)

\* the caller's context is cancelled or passes its deadline during a call
CancelCtx(c) ==
    /\ kpc[c] # "idle"
    /\ ~ctxDone[c]
    /\ ctxDone' = [ctxDone EXCEPT ![c] = TRUE]
    /\ \E cause \in CtxCauses : ctxCause' = [ctxCause EXCEPT ![c] = cause]
    /\ UNCHANGED <<store, keyLocks, keyCreationLock, rwmutex, nextLock, mapWrite,
                   kpc, kkey, kret, held, installs, fault>>

(***************************************************************************)
(* KeyUnlock / KeyRUnlock (main.go:72-74, 92-94), called by a caller that  *)
(* holds the lock in that mode.  Unlocking an RWMutex that is not locked   *)
(* is a fatal error of the runtime.                                        *)
(***************************************************************************)
KeyUnlock(c, k) ==
    /\ kpc[c] = "idle"
    /\ held[c][k] = "w"
    /\ \E v \in MapRead(k) :
         IF v \in {RACE, NULL}
         THEN Crash(ReadFault(v))
         ELSE IF ~rwmutex[v].w
         THEN Crash("sync: Unlock of unlocked RWMutex")
         ELSE /\ rwmutex' = [rwmutex EXCEPT ![v].w = FALSE]
              /\ held' = [held EXCEPT ![c][k] = "none"]
              /\ kret' = [kret EXCEPT ![c] = NoReturn]
              /\ UNCHANGED <<store, keyLocks, keyCreationLock, nextLock, mapWrite,
                             kpc, kkey, ctxDone, ctxCause, installs, fault>>

KeyRUnlock(c, k) ==
    /\ kpc[c] = "idle"
    /\ held[c][k] = "r"
    /\ \E v \in MapRead(k) :
         IF v \in {RACE, NULL}
         THEN Crash(ReadFault(v))
         ELSE IF rwmutex[v].r = 0
         THEN Crash("sync: RUnlock of unlocked RWMutex")
         ELSE /\ rwmutex' = [rwmutex EXCEPT ![v].r = @ - 1]
              /\ held' = [held EXCEPT ![c][k] = "none"]
              /\ kret' = [kret EXCEPT ![c] = NoReturn]
              /\ UNCHANGED <<store, keyLocks, keyCreationLock, nextLock, mapWrite,
                             kpc, kkey, ctxDone, ctxCause, installs, fault>>

(***************************************************************************)
(* CreateKeyAndLock (main.go:100-112)                                      *)
(***************************************************************************)
CallCreateKeyAndLock(c, k) == StartCall(c, k, "ckl_gate")

\* KeyExists: return server.keyLocks[key] != nil, on the entry v the map read
\* returned
KeyExistsNever(v) == FALSE
KeyExists(v) == v # NULL

\* keyLock := &sync.RWMutex{}; keyLock.Lock()
NewLockNotHeld == NewRWMutex
NewLockHeld == [NewRWMutex EXCEPT !.w = TRUE]

\* server.keyCreationLock.Lock(); defer server.keyCreationLock.Unlock();
\* if !server.KeyExists(key)
CreateKeyAndLock_Gate(c) ==
    /\ kpc[c] = "ckl_gate"
    /\ GateAvailable
    /\ \E v \in MapRead(kkey[c]) :
         IF v = RACE
         THEN Crash(ReadFault(v))
         ELSE /\ keyCreationLock' = c
              /\ kpc' = [kpc EXCEPT ![c] = IF ~KeyExists(v) THEN "ckl_new"
                                           ELSE "ckl_poll"]
              /\ UNCHANGED <<store, keyLocks, rwmutex, nextLock, mapWrite, kkey,
                             ctxDone, ctxCause, kret, held, installs, fault>>

\* keyLock := &sync.RWMutex{}; keyLock.Lock(); server.keyLocks[key] = ... begins
CreateKeyAndLock_New(c) ==
    /\ kpc[c] = "ckl_new"
    /\ nextLock < NumKeys + 1
    /\ mapWrite = <<>>
    /\ LET l == nextLock + 1 IN
         /\ nextLock' = l
         /\ rwmutex' = [rwmutex EXCEPT ![l] = NewLockHeld]
         /\ mapWrite' = <<kkey[c], l>>
    /\ kpc' = [kpc EXCEPT ![c] = "ckl_store"]
    /\ UNCHANGED <<store, keyLocks, keyCreationLock, kkey, ctxDone, ctxCause,
                   kret, held, installs, fault>>

\* the assignment to server.keyLocks[key] completes; return true, nil; the
\* deferred Unlock releases the gate
CreateKeyAndLock_Store(c) ==
    /\ kpc[c] = "ckl_store"
    /\ keyLocks' = [keyLocks EXCEPT ![mapWrite[1]] = mapWrite[2]]
    /\ mapWrite' = <<>>
    /\ installs' = [installs EXCEPT ![kkey[c]] = @ + 1]
    /\ held' = [held EXCEPT ![c][kkey[c]] = "w"]
    /\ keyCreationLock' = NONE
    /\ Return(c, TRUE, <<>>)
    /\ UNCHANGED <<store, rwmutex, nextLock, fault>>

\* return server.KeyLock(ctx, key): the poll loop runs before the deferred
\* Unlock of the gate
CreateKeyAndLock_KeyLock(c) ==
    /\ kpc[c] = "ckl_poll"
    /\ PollBody(c, "w", TRUE)

KeyspaceInit ==
    /\ store = [k \in Keys |-> NoValue]
    /\ keyLocks = [k \in Keys |-> NULL]
    /\ keyCreationLock = NONE
    /\ rwmutex = [l \in LockIds |-> NewRWMutex]
    /\ nextLock = 0
    /\ mapWrite = <<>>
    /\ kpc = [c \in Callers |-> "idle"]
    /\ kkey = [c \in Callers |-> 1]
    /\ ctxDone = [c \in Callers |-> FALSE]
    /\ ctxCause = [c \in Callers |-> <<>>]
    /\ kret = [c \in Callers |-> NoReturn]
    /\ held = [c \in Callers |-> [k \in Keys |-> "none"]]
    /\ installs = [k \in Keys |-> 0]
    /\ fault = "none"

(***************************************************************************)
(* Strings.  A string is a tuple of one-character strings, so that case    *)
(* folding is computed character by character as strings.EqualFold,        *)
(* strings.ToUpper and strings.ToLower compute it.                         *)
(***************************************************************************)
LowerCase == <<"a","b","c","d","e","f","g","h","i","j","k","l","m",
               "n","o","p","q","r","s","t","u","v","w","x","y","z">>
UpperCase == <<"A","B","C","D","E","F","G","H","I","J","K","L","M",
               "N","O","P","Q","R","S","T","U","V","W","X","Y","Z">>

ToLowerChar(ch) ==
    IF \E i \in 1..26 : UpperCase[i] = ch
    THEN LowerCase[CHOOSE i \in 1..26 : UpperCase[i] = ch]
    ELSE ch

ToUpperChar(ch) ==
    IF \E i \in 1..26 : LowerCase[i] = ch
    THEN UpperCase[CHOOSE i \in 1..26 : LowerCase[i] = ch]
    ELSE ch

ToLower(s) == [i \in 1..Len(s) |-> ToLowerChar(s[i])]
ToUpper(s) == [i \in 1..Len(s) |-> ToUpperChar(s[i])]

\* strings.EqualFold
EqualFold(s, t) ==
    /\ Len(s) = Len(t)
    /\ \A i \in 1..Len(s) : ToLowerChar(s[i]) = ToLowerChar(t[i])

(***************************************************************************)
(* Command registry: LoadCommands (main.go:322-330) and getCommand         *)
(* (main.go:122-129)                                                       *)
(***************************************************************************)
MaxLoads == 2
MaxPluginCmds == 2

\* names the plugins of the registry specification may register
RegNames == { <<"g","e","t">>, <<"G","E","T">>, <<"s","e","t">> }
\* names looked up
LookupNames == RegNames \cup { <<"G","e","t">>, <<"S","E","T">>, <<"d","e","l">> }

PlainCommand(n) == [Command |-> n, Sync |-> FALSE, SubCommands |-> <<>>]

\* plugin.Commands() of a plugin of the registry specification
PluginCommandLists ==
    UNION { [1..n -> {PlainCommand(nm) : nm \in RegNames}] : n \in 1..MaxPluginCmds }

\* server.commands[command.Command] = utils.ServerCommand{command, plugin}
MapAssign(m, key, value) == [k \in DOMAIN m \cup {key} |-> IF k = key THEN value ELSE m[k]]

\* the loop of LoadCommands over plugin.Commands()
RECURSIVE LoadCommandsInto(_, _, _)
LoadCommandsInto(cmds, plugin, list) ==
    IF list = <<>>
    THEN cmds
    ELSE LoadCommandsInto(
            MapAssign(cmds, Head(list).Command, [Command |-> Head(list), Plugin |-> plugin]),
            plugin, Tail(list))

\* a nil error, and the zero value utils.ServerCommand{}
NoError == <<>>
ZeroCommand == [Command |-> <<>>, Sync |-> FALSE, SubCommands |-> <<>>]
ZeroServerCommand == [Command |-> ZeroCommand, Plugin |-> 0]

\* fmt.Errorf("command %s not supported", cmd)
NotSupported(name) == <<"command ">> \o name \o <<" not supported">>

\* getCommand ranges over the map, whose iteration order is unspecified, and
\* returns the first entry whose key folds to the name: every matching entry is a
\* possible result
getCommand(cmds, name) ==
    LET matches == {key \in DOMAIN cmds : EqualFold(key, name)} IN
    IF matches = {}
    THEN {[command |-> ZeroServerCommand, err |-> NotSupported(name)]}
    ELSE {[command |-> cmds[key], err |-> NoError] : key \in matches}

LoadCommands(plugin, list) ==
    /\ regPhase = "loading"
    /\ loads < MaxLoads
    /\ plugin = loads + 1
    /\ commands' = LoadCommandsInto(commands, plugin, list)
    /\ loads' = loads + 1
    /\ registered' = registered \o [i \in 1..Len(list) |->
                                 [Command |-> list[i], Plugin |-> plugin]]
    /\ UNCHANGED <<regPhase, returned>>

\* Start: LoadModules returns before the listener accepts connections
StartServing ==
    /\ regPhase = "loading"
    /\ regPhase' = "serving"
    /\ UNCHANGED <<commands, loads, registered, returned>>

Lookup(name) ==
    /\ regPhase = "serving"
    /\ \E r \in getCommand(commands, name) :
         returned' = [returned EXCEPT ![name] = @ \cup {r}]
    /\ UNCHANGED <<commands, regPhase, loads, registered>>

EmptyMap == [k \in {} |-> NULL]

RegistryIdle ==
    /\ commands = EmptyMap
    /\ regPhase = "loading"
    /\ loads = 0
    /\ registered = <<>>
    /\ returned = [n \in LookupNames |-> {}]

(***************************************************************************)
(* Dispatcher: handleConnection (main.go:139-255)                          *)
(***************************************************************************)
NumConns == 1
MaxFrames == 2

Conns == 1..NumConns

\* ---- the registry the dispatcher runs with: LoadModules over these plugins
AclCommand ==
    [Command |-> <<"a","c","l">>, Sync |-> FALSE,
     SubCommands |-> << [Command |-> <<"l","o","a","d">>, Sync |-> TRUE],
                        [Command |-> <<"l","i","s","t">>, Sync |-> FALSE] >>]
GetCommand == [Command |-> <<"g","e","t">>, Sync |-> FALSE, SubCommands |-> <<>>]
SetCommand == [Command |-> <<"s","e","t">>, Sync |-> TRUE, SubCommands |-> <<>>]
CfgCommand ==
    [Command |-> <<"c","f","g">>, Sync |-> TRUE,
     SubCommands |-> << [Command |-> <<"g","e","t">>, Sync |-> FALSE] >>]

Plugins == << <<AclCommand>>, <<GetCommand, SetCommand>>, <<CfgCommand>> >>

RECURSIVE LoadModulesFrom(_, _)
LoadModulesFrom(cmds, i) ==
    IF i > Len(Plugins) THEN cmds
    ELSE LoadModulesFrom(LoadCommandsInto(cmds, i, Plugins[i]), i + 1)

\* ---- frames a client may send
Malformed == [array |-> FALSE, elems |-> <<>>]
Frame(elems) == [array |-> TRUE, elems |-> elems]

Messages ==
    { Malformed,
      Frame(<<>>),
      Frame(<< <<"g","e","t">>, <<"k">> >>),
      Frame(<< <<"S","E","T">>, <<"k">>, <<"v">> >>),
      Frame(<< <<"n","o","p","e">> >>),
      Frame(<< <<"a","c","l">>, <<"l","o","a","d">> >>),
      Frame(<< <<"c","f","g">>, <<"g","e","t">> >>) }

\* utils.Decode: the command vector of a well-formed array frame, an error
\* for anything else
Decode(message) ==
    IF message.array
    THEN [cmd |-> message.elems, err |-> NoError]
    ELSE [cmd |-> <<>>, err |-> <<"invalid frame">>]

\* utils.GetSubCommand(command, cmd).(utils.SubCommand): the entry of the
\* command's subcommand table named by the second token, if there is one
GetSubCommand(cmnd, cmdvec) ==
    LET hits == IF Len(cmdvec) < 2 THEN {}
                ELSE {i \in 1..Len(cmnd.SubCommands) :
                          cmnd.SubCommands[i].Command = cmdvec[2]}
    IN IF hits = {}
       THEN [ok |-> FALSE, sub |-> [Command |-> <<>>, Sync |-> FALSE]]
       ELSE [ok |-> TRUE,
             sub |-> cmnd.SubCommands[CHOOSE i \in hits : \A j \in hits : i <= j]]

\* synchronize := command.Command.Sync; if ok { synchronize = subCommand.Sync }
EffectiveSyncOfCommandOnly(cmnd, sc) == cmnd.Sync
EffectiveSync(cmnd, sc) == IF sc.ok THEN sc.sub.Sync ELSE cmnd.Sync

\* server.ACL.AuthorizeConnection: nil, or the reason of the denial
AuthorizeConnection(cmdvec, cmnd, sc) == {NoError, <<"not authorized">>}

\* if !server.IsInCluster() || !synchronize
RouteLocal(inCluster, sync) == ~inCluster \/ ~sync

\* json.Marshal(applyRequest): a struct of strings and a string slice always
\* marshals
MarshalError(request) == NoError

\* server.isRaftLeader()
IsRaftLeaderAssumed(leader) == TRUE
IsRaftLeader(leader) == leader

\* the handler of a command module: HandlerFunc -> (bytes, err), writing the
\* store through setValues
HandlerFunc(cmdvec, st) ==
    LET name == ToLower(cmdvec[1]) IN
    { [res |-> <<>>, err |-> <<"handler failed">>, store |-> st] } \cup
    { IF name = <<"s","e","t">> /\ Len(cmdvec) = 3
      THEN [res |-> <<"+OK\r\n">>, err |-> NoError,
            store |-> [st EXCEPT ![1] = cmdvec[3]]]
      ELSE IF name = <<"g","e","t">> /\ Len(cmdvec) = 2
      THEN [res |-> <<"$">> \o (IF st[1] = NoValue THEN <<"-1">> ELSE st[1]) \o <<"\r\n">>,
            err |-> NoError, store |-> st]
      ELSE [res |-> <<"+OK\r\n">>, err |-> NoError, store |-> st] }

\* ---- response lines
\* fmt.Sprintf("-%s\r\n\n", err.Error())
ErrLine(text) == <<"-">> \o text \o <<"\r\n\n">>
\* fmt.Sprintf("-Error %s\r\n\n", err.Error())
ErrorLine(text) == <<"-Error ">> \o text \o <<"\r\n\n">>
NotLeaderLine == <<"-Error not cluster leader, cannot carry out command\r\n\n">>

\* connRW.Write(line); connRW.Flush()
WriteNoFlush(w, line) == w
WriteFlush(w, line) == Append(w, line)

\* the ACL has not been asked in this iteration
NotAsked ==
    [asked |-> FALSE, cmd |-> <<>>,
     sc |-> [ok |-> FALSE, sub |-> [Command |-> <<>>, Sync |-> FALSE]],
     err |-> NoError]

\* the record of one finished iteration of the read loop: the command, the
\* branch that answered, who ran the handler, the handler's error, the line
Iteration(cmdvec, path, handler, herr, line) ==
    [cmd |-> cmdvec, path |-> path, handler |-> handler, herr |-> herr,
     line |-> line,
     onFollower |-> handler = "local" /\ clustered /\ ~raftLeader]

\* one response is written and flushed, and the loop continues with the next
\* frame; the loop's locals go out of scope
Respond(c, cmdvec, line, path, handler, herr) ==
    /\ out' = [out EXCEPT ![c] = WriteFlush(@, line)]
    /\ done' = [done EXCEPT ![c] = Append(@, Iteration(cmdvec, path, handler, herr, line))]
    /\ dpc' = [dpc EXCEPT ![c] = "ReadMessage"]
    /\ msg' = [msg EXCEPT ![c] = Malformed]
    /\ cmd' = [cmd EXCEPT ![c] = <<>>]
    /\ command' = [command EXCEPT ![c] = ZeroServerCommand]
    /\ synchronize' = [synchronize EXCEPT ![c] = FALSE]
    /\ authz' = [authz EXCEPT ![c] = NotAsked]
    /\ UNCHANGED <<fault, clustered, raftLeader, raftLog, nRead, decoded, readErr>>

\* io.EOF, and the errors utils.ReadMessage can return
EOF == <<"EOF">>
ReadErrors == {NoError, EOF, <<"unexpected EOF">>}

\* if err != nil && err == io.EOF { break }
BreaksLoopOnAnyError(err) == err # NoError
BreaksLoop(err) == err # NoError /\ err = EOF

\* message, err := utils.ReadMessage(connRW)   (state Reading)
ReadMessage(c) ==
    /\ dpc[c] = "ReadMessage"
    /\ \E err \in ReadErrors :
       /\ readErr' = [readErr EXCEPT ![c] = err]
       /\ IF BreaksLoop(err)
          THEN \* break; conn.Close()
               /\ dpc' = [dpc EXCEPT ![c] = "Closed"]
               /\ UNCHANGED <<msg, nRead, decoded, done>>
          ELSE /\ nRead < MaxFrames
               /\ nRead' = nRead + 1
               /\ IF err # NoError
                  THEN \* fmt.Println(err); continue
                       /\ done' = [done EXCEPT ![c] =
                              Append(@, Iteration(<<>>, "read_error", "none",
                                                  NoError, <<>>))]
                       /\ UNCHANGED <<dpc, msg, decoded>>
                  ELSE \E m \in Messages :
                       /\ msg' = [msg EXCEPT ![c] = m]
                       /\ decoded' = [decoded EXCEPT ![c] = @ + 1]
                       /\ dpc' = [dpc EXCEPT ![c] = "Decode"]
                       /\ UNCHANGED done
    /\ UNCHANGED <<store, fault, clustered, raftLeader, raftLog, committed, cmd,
                   command, synchronize, out, authz>>

\* cmd, err := utils.Decode(message); command, err := server.getCommand(cmd[0])
DecodeStep(c) ==
    /\ dpc[c] = "Decode"
    /\ LET d == Decode(msg[c]) IN
       IF d.err # NoError
       THEN /\ Respond(c, <<>>, ErrorLine(d.err), "decode_error", "none", NoError)
            /\ UNCHANGED <<store, committed>>
       ELSE IF Len(d.cmd) = 0
       THEN \* cmd[0] of an empty slice panics; the panic ends the process
            /\ fault' = "index out of range"
            /\ UNCHANGED <<store, dvars>>
       ELSE \E g \in getCommand(commands, d.cmd[1]) :
            IF g.err # NoError
            THEN /\ Respond(c, d.cmd, ErrLine(g.err), "unknown", "none", NoError)
                 /\ UNCHANGED <<store, committed>>
            ELSE /\ cmd' = [cmd EXCEPT ![c] = d.cmd]
                 /\ command' = [command EXCEPT ![c] = g.command]
                 /\ dpc' = [dpc EXCEPT ![c] = "Authorize"]
                 /\ UNCHANGED <<store, fault, clustered, raftLeader, raftLog,
                                committed, msg, synchronize, out, nRead, decoded,
                                done, readErr, authz>>

\* if err != nil { write the denial; continue }
DeniedNever(err) == FALSE
Denied(err) == err # NoError

\* the subcommand is resolved, synchronize is fixed, the ACL is asked
Authorize(c) ==
    /\ dpc[c] = "Authorize"
    /\ LET sc == GetSubCommand(command[c].Command, cmd[c]) IN
       \E err \in AuthorizeConnection(cmd[c], command[c].Command, sc) :
          IF Denied(err)
          THEN /\ Respond(c, cmd[c], ErrLine(err), "denied", "none", NoError)
               /\ UNCHANGED <<store, committed>>
          ELSE /\ synchronize' = [synchronize EXCEPT ![c] =
                                     EffectiveSync(command[c].Command, sc)]
               /\ authz' = [authz EXCEPT ![c] =
                                [asked |-> TRUE, cmd |-> cmd[c], sc |-> sc,
                                 err |-> err]]
               /\ dpc' = [dpc EXCEPT ![c] = "Route"]
               /\ UNCHANGED <<store, fault, clustered, raftLeader, raftLog,
                              committed, msg, cmd, command, out, nRead, decoded,
                              done, readErr>>

\* server.handlePluginCommand(ctx, cmd, &conn) on the connection's goroutine
ExecuteLocal(c) ==
    /\ dpc[c] = "Route"
    /\ RouteLocal(clustered, synchronize[c])
    /\ \E g \in getCommand(commands, cmd[c][1]) :
         IF g.err # NoError
         THEN /\ Respond(c, cmd[c], ErrLine(g.err), "local", "none", NoError)
              /\ UNCHANGED <<store, committed>>
         ELSE \E h \in HandlerFunc(cmd[c], store) :
              /\ store' = h.store
              /\ UNCHANGED committed
              /\ Respond(c, cmd[c], IF h.err # NoError THEN ErrLine(h.err) ELSE h.res,
                         "local", "local", h.err)

\* applyRequest := utils.ApplyRequest{ServerID, ConnectionID, CMD: cmd}
ApplyRequestWithoutArguments(c, cmdvec) == [ConnectionID |-> c, CMD |-> <<cmdvec[1]>>]
ApplyRequest(c, cmdvec) == [ConnectionID |-> c, CMD |-> cmdvec]

\* b, err := json.Marshal(applyRequest);
\* if server.isRaftLeader() { applyFuture := server.raft.Apply(b, 500ms)
RaftApply(c) ==
    /\ dpc[c] = "Route"
    /\ ~RouteLocal(clustered, synchronize[c])
    /\ MarshalError(cmd[c]) = NoError
    /\ IsRaftLeader(raftLeader)
    /\ raftLog' = Append(raftLog, ApplyRequest(c, cmd[c]))
    /\ dpc' = [dpc EXCEPT ![c] = "applyFuture"]
    /\ UNCHANGED <<store, fault, clustered, raftLeader, committed, msg, cmd, command,
                   synchronize, out, nRead, decoded, done, readErr, authz>>

\* } else { "-Error not cluster leader, cannot carry out command" }
NotLeader(c) ==
    /\ dpc[c] = "Route"
    /\ ~RouteLocal(clustered, synchronize[c])
    /\ MarshalError(cmd[c]) = NoError
    /\ ~IsRaftLeader(raftLeader)
    /\ Respond(c, cmd[c], NotLeaderLine, "not_leader", "none", NoError)
    /\ UNCHANGED <<store, committed>>

\* the entry of the log the connection waits for: the last one it submitted
PendingIndex(c) ==
    CHOOSE i \in 1..Len(raftLog) :
        /\ raftLog[i].ConnectionID = c
        /\ \A j \in (i + 1)..Len(raftLog) : raftLog[j].ConnectionID # c

\* applyFuture.Error(), applyFuture.Response(): the proposal fails, or the
\* response is no ApplyResponse, or the entry was applied (the apply path ran
\* the handler on the record, entries being applied in log order) and its
\* ApplyResponse carries an error or the bytes
ApplyFuture(c) ==
    /\ dpc[c] = "applyFuture"
    /\ \/ /\ Respond(c, cmd[c], ErrorLine(<<"timed out enqueuing operation">>),
                     "apply_error", "none", NoError)
          /\ UNCHANGED <<store, committed>>
       \/ /\ Respond(c, cmd[c], ErrorLine(<<"unprocessable entity {[] <nil>}">>),
                     "unprocessable", "none", NoError)
          /\ UNCHANGED <<store, committed>>
       \/ \E h \in HandlerFunc(raftLog[PendingIndex(c)].CMD, store) :
          /\ \A c2 \in Conns \ {c} :
                dpc[c2] = "applyFuture" => PendingIndex(c2) > PendingIndex(c)
          /\ store' = h.store
          /\ committed' = Append(committed,
                 [req |-> raftLog[PendingIndex(c)], cmd |-> cmd[c],
                  err |-> h.err, store |-> h.store])
          /\ Respond(c, cmd[c], IF h.err # NoError THEN ErrorLine(h.err) ELSE h.res,
                     "applied", "apply", h.err)

\* the consensus library elects or deposes this node
LeadershipChange ==
    /\ clustered
    /\ raftLeader' = ~raftLeader
    /\ UNCHANGED <<store, fault, clustered, raftLog, committed, dpc, msg, cmd,
                   command, synchronize, out, nRead, decoded, done, readErr, authz>>

(***************************************************************************)
(* Pub/sub engine (server.PubSub).  Channels and patterns are strings; a   *)
(* message is <<event, channel or pattern, index or payload>>.             *)
(***************************************************************************)
MaxPublishes == 2
MaxQueue == 3

Channels == { <<"a">>, <<"b">> }
Patterns == { <<"*">>, <<"a">> }
Payloads == { <<"hello">> }

\* glob match of a pattern against a channel name: "*" matches any run of
\* characters, any other character matches itself
RECURSIVE GlobMatch(_, _)
GlobMatch(p, ch) ==
    IF p = <<>> THEN ch = <<>>
    ELSE IF Head(p) = "*"
    THEN \E n \in 0..Len(ch) : GlobMatch(Tail(p), SubSeq(ch, n + 1, Len(ch)))
    ELSE ch # <<>> /\ Head(p) = Head(ch) /\ GlobMatch(Tail(p), Tail(ch))

\* the argument lists of SUBSCRIBE / PSUBSCRIBE: one or more distinct names
ArgLists(names) ==
    { <<n>> : n \in names } \cup
    ({ <<n, m>> : n, m \in names } \ { <<n, n>> : n \in names })

\* non-blocking enqueue on a connection's outbound queue: a message for a
\* full queue is dropped
Enqueue(q, m) == IF Len(q) < MaxQueue THEN Append(q, m) ELSE q

\* the confirmations of one SUBSCRIBE: event type at index 0, channel name at
\* index 1, subscription index at index 2, one per channel in argument order
ConfirmationsUnordered(event, names) ==
    [i \in 1..Len(names) |-> <<event, names[Len(names) + 1 - i], i>>]
Confirmations(event, names) ==
    [i \in 1..Len(names) |-> <<event, names[i], i>>]

\* subscribe(conn, channels[]): add the connection to the index of each
\* channel and enqueue the confirmations
Subscribe(c, chans) ==
    /\ dpc[c] = "ReadMessage"
    /\ subArgs[c] = <<>>
    /\ \A p \in Patterns : c \notin patternIndex[p]
    /\ channelIndex' = [ch \in Channels |->
                          IF \E i \in 1..Len(chans) : chans[i] = ch
                          THEN channelIndex[ch] \cup {c} ELSE channelIndex[ch]]
    /\ queue' = [queue EXCEPT ![c] = @ \o Confirmations("subscribe", chans)]
    /\ subArgs' = [subArgs EXCEPT ![c] = chans]
    /\ UNCHANGED <<patternIndex, reads, nPub>>

\* psubscribe(conn, patterns[])
PSubscribe(c, pats) ==
    /\ dpc[c] = "ReadMessage"
    /\ subArgs[c] = <<>>
    /\ \A p \in Patterns : c \notin patternIndex[p]
    /\ patternIndex' = [p \in Patterns |->
                          IF \E i \in 1..Len(pats) : pats[i] = p
                          THEN patternIndex[p] \cup {c} ELSE patternIndex[p]]
    /\ queue' = [queue EXCEPT ![c] = @ \o Confirmations("psubscribe", pats)]
    /\ UNCHANGED <<channelIndex, reads, subArgs, nPub>>

\* what publish(channel, payload) enqueues for one connection: a message if
\* it subscribed to the channel, a pmessage for each of its matching patterns
RECURSIVE PatternMessages(_, _, _, _)
PatternMessages(c, pats, ch, payload) ==
    IF pats = {} THEN <<>>
    ELSE LET p == CHOOSE x \in pats : TRUE IN
         (IF c \in patternIndex[p] /\ GlobMatch(p, ch)
          THEN << <<"pmessage", p, payload>> >> ELSE <<>>)
         \o PatternMessages(c, pats \ {p}, ch, payload)

RECURSIVE EnqueueAll(_, _)
EnqueueAll(q, ms) == IF ms = <<>> THEN q ELSE EnqueueAll(Enqueue(q, Head(ms)), Tail(ms))

Publish(ch, payload) ==
    /\ nPub < MaxPublishes
    /\ nPub' = nPub + 1
    /\ queue' = [c \in Conns |->
                   EnqueueAll(queue[c],
                       (IF c \in channelIndex[ch]
                        THEN << <<"message", ch, payload>> >> ELSE <<>>)
                       \o PatternMessages(c, Patterns, ch, payload))]
    /\ UNCHANGED <<channelIndex, patternIndex, reads, subArgs>>

\* the subscriber reads its next message
MessageRead(c) ==
    /\ queue[c] # <<>>
    /\ reads' = [reads EXCEPT ![c] = Append(@, Head(queue[c]))]
    /\ queue' = [queue EXCEPT ![c] = Tail(@)]
    /\ UNCHANGED <<channelIndex, patternIndex, subArgs, nPub>>

PubSubIdle ==
    /\ channelIndex = [ch \in Channels |-> {}]
    /\ patternIndex = [p \in Patterns |-> {}]
    /\ queue = [c \in Conns |-> <<>>]
    /\ reads = [c \in Conns |-> <<>>]
    /\ subArgs = [c \in Conns |-> <<>>]
    /\ nPub = 0

(***************************************************************************)
(* The followers of the cluster.  The consensus library delivers the       *)
(* committed entries to every running node in log order; the apply path    *)
(* decodes the record, looks the command up and runs its handler on the    *)
(* node's own store, with the outcome the same state gave on the leader.   *)
(***************************************************************************)
Followers == {"f1", "f2"}

FollowerApply(f) ==
    /\ flive[f]
    /\ fapplied[f] < Len(committed)
    /\ LET e == committed[fapplied[f] + 1] IN
       \E h \in HandlerFunc(e.req.CMD, fstore[f]) :
          /\ (h.err = NoError) = (e.err = NoError)
          /\ fstore' = [fstore EXCEPT ![f] = h.store]
    /\ fapplied' = [fapplied EXCEPT ![f] = @ + 1]
    /\ UNCHANGED flive

\* a follower stops (crash or shutdown)
FollowerStop(f) ==
    /\ flive[f]
    /\ flive' = [flive EXCEPT ![f] = FALSE]
    /\ UNCHANGED <<fstore, fapplied>>

ReplicationIdle ==
    /\ fstore = [f \in Followers |-> [k \in Keys |-> NoValue]]
    /\ fapplied = [f \in Followers |-> 0]
    /\ flive = [f \in Followers |-> TRUE]

(***************************************************************************)
(* utils.LinkedList (server/utils/linked_list.go).  Nodes live in a heap   *)
(* indexed by allocation order; NULL is the nil pointer.  A loop of the    *)
(* code that would never end is reported as "hang", a dereference of nil   *)
(* as "panic".                                                             *)
(***************************************************************************)
MaxAdds == 5

ListValues == {"x", "y"}
NodeIds == 1..MaxAdds

\* NewLinkedList(options)
NewLinkedList(ring) ==
    [ring |-> ring, head |-> NULL, tail |-> NULL, n |-> 0,
     node |-> [i \in NodeIds |-> [value |-> "", next |-> NULL]]]

\* NewNode(value, next), at the next free address
NewNode(l, value, next) ==
    [l EXCEPT !.n = @ + 1, !.node[l.n + 1] = [value |-> value, next |-> next]]

\* func (l *LinkedList[T]) Add(value T)
Add(l, value) ==
    LET id == l.n + 1 IN
    IF l.head = NULL
    THEN [NewNode(l, value, NULL) EXCEPT !.head = id]
    ELSE IF l.tail = NULL /\ ~l.ring
    THEN [NewNode(l, value, NULL) EXCEPT !.tail = id, !.node[l.head].next = id]
    ELSE IF l.tail = NULL /\ l.ring
    THEN [NewNode(l, value, l.head) EXCEPT !.tail = id, !.node[l.head].next = id]
    ELSE IF ~l.ring
    THEN [NewNode(l, value, NULL) EXCEPT !.node[l.tail].next = id, !.tail = id]
    ELSE [NewNode(l, value, l.head) EXCEPT !.node[l.tail].next = id, !.tail = id]

\* the loop of Contains; fuel counts the nodes not yet visited: a walk longer
\* than the heap is on a cycle that avoids head and never ends
RECURSIVE ContainsLoop(_, _, _, _)
ContainsLoop(l, value, n, fuel) ==
    IF n = NULL \/ n = l.head THEN "false"
    ELSE IF l.node[n].value = value THEN "true"
    ELSE IF fuel = 0 THEN "hang"
    ELSE ContainsLoop(l, value, l.node[n].next, fuel - 1)

\* func (l *LinkedList[T]) Contains(value T) bool
Contains(l, value) ==
    IF l.head = NULL THEN "false"
    ELSE IF l.node[l.head].value = value THEN "true"
    ELSE IF l.node[l.head].next = NULL THEN "false"
    ELSE ContainsLoop(l, value, l.node[l.head].next, l.n)

Returned(l) == [list |-> l, outcome |-> "ok"]
Failed(l, how) == [list |-> l, outcome |-> how]

\* the loop of Remove in linear mode (lines 88-97)
RECURSIVE RemoveLinearLoop(_, _, _, _)
RemoveLinearLoop(l, value, n, fuel) ==
    LET nx == l.node[n].next IN
    IF nx = NULL THEN Failed(l, "panic")
    ELSE IF l.node[nx].value = value
    THEN LET l2 == [l EXCEPT !.node[n].next = l.node[nx].next] IN
         Returned(IF l2.node[n].next = NULL THEN [l2 EXCEPT !.tail = n] ELSE l2)
    ELSE IF fuel = 0 THEN Failed(l, "hang")
    ELSE RemoveLinearLoop(l, value, nx, fuel - 1)

\* the loop of Remove in ring mode (lines 120-133)
RECURSIVE RemoveRingLoop(_, _, _, _)
RemoveRingLoop(l, value, n, fuel) ==
    IF n = l.head THEN Returned(l)
    ELSE IF n = NULL \/ l.node[n].next = NULL THEN Failed(l, "panic")
    ELSE LET nx == l.node[n].next IN
         IF l.node[nx].value = value /\ nx = l.tail
         THEN Returned([l EXCEPT !.tail = n, !.node[n].next = l.head])
         ELSE LET l2 == IF l.node[nx].value = value
                        THEN [l EXCEPT !.node[n].next = l.node[nx].next]
                        ELSE l
              IN IF fuel = 0 THEN Failed(l2, "hang")
                 ELSE RemoveRingLoop(l2, value, l2.node[n].next, fuel - 1)

\* func (l *LinkedList[T]) Remove(value T)
Remove(l, value) ==
    LET found == Contains(l, value)
        n == l.head
    IN
    IF found = "hang" THEN Failed(l, "hang")
    ELSE IF found = "false" THEN Returned(l)
    ELSE IF n = NULL \/ (l.node[n].next = NULL /\ l.node[n].value # value)
    THEN Returned(l)
    ELSE IF l.node[n].next = NULL /\ l.node[n].value = value
    THEN Returned([l EXCEPT !.head = NULL])
    ELSE IF ~l.ring
    THEN IF l.node[l.head].value = value
         THEN Returned([l EXCEPT !.head = l.node[l.head].next])
         ELSE RemoveLinearLoop(l, value, n, l.n)
    ELSE IF l.node[l.head].value = value
    THEN LET h == l.node[l.head].next IN
         IF l.tail = NULL THEN Failed([l EXCEPT !.head = h], "panic")
         ELSE LET l2 == [l EXCEPT !.head = h, !.node[l.tail].next = h] IN
              Returned(IF l2.head = l2.tail THEN [l2 EXCEPT !.tail = NULL] ELSE l2)
    ELSE IF l.node[l.node[l.head].next].value = value
    THEN LET hn == l.node[l.head].next IN
         Returned(IF hn # l.tail
                  THEN [l EXCEPT !.node[l.head].next = l.node[hn].next]
                  ELSE [l EXCEPT !.node[l.head].next = NULL])
    ELSE RemoveRingLoop(l, value, l.node[n].next, (l.n + 1) * (l.n + 1))

\* the goroutine of Iter: the values of the nodes sent on the channel, and
\* whether the channel is then closed.  A loop that has sent more nodes than
\* the heap holds is on a cycle and sends forever: its sequence is cut there
\* and the channel is never closed.
RECURSIVE IterLoop(_, _, _)
IterLoop(l, n, fuel) ==
    IF n = NULL THEN [sent |-> <<>>, closed |-> TRUE]
    ELSE IF fuel = 0 THEN [sent |-> <<>>, closed |-> FALSE]
    ELSE LET rest == IterLoop(l,
                        IF n = l.head /\ l.node[n].next = NULL /\ l.ring
                        THEN n ELSE l.node[n].next,
                        fuel - 1)
         IN [sent |-> <<l.node[n].value>> \o rest.sent, closed |-> rest.closed]

\* func (l *LinkedList[T]) Iter() *chan *Node[T]
Iter(l) == IterLoop(l, l.head, l.n + 1)

\* deleting the first occurrence of a value from a sequence
RECURSIVE DeleteFirst(_, _)
DeleteFirst(seq, value) ==
    IF seq = <<>> THEN <<>>
    ELSE IF Head(seq) = value THEN Tail(seq)
    ELSE <<Head(seq)>> \o DeleteFirst(Tail(seq), value)

\* a caller adds a value
AddCall(value) ==
    /\ lfault = "none"
    /\ llist.n < MaxAdds
    /\ llist' = Add(llist, value)
    /\ lop' = <<"Add", value>>
    /\ ref' = Append(ref, value)
    /\ UNCHANGED lfault

\* a caller removes a value
RemoveCall(value) ==
    /\ lfault = "none"
    /\ LET r == Remove(llist, value) IN
         /\ llist' = r.list
         /\ lfault' = IF r.outcome = "ok" THEN "none" ELSE r.outcome
    /\ lop' = <<"Remove", value>>
    /\ ref' = DeleteFirst(ref, value)

LinkedListIdle ==
    /\ llist = NewLinkedList(FALSE)
    /\ lop = <<"none", "">>
    /\ ref = <<>>
    /\ lfault = "none"

(***************************************************************************)
(* StartTCP's accept loop (main.go:289-297) and the head of                *)
(* handleConnection (main.go:140-146): every accepted connection gets a    *)
(* goroutine, which draws its number from the atomic counter connID.       *)
(***************************************************************************)
MaxAccepts == 4

Sockets == 1..MaxAccepts
ServerID == <<"s1">>

\* atomic.Uint64.Add(1): one indivisible read-modify-write, returning the new
\* value
AddReturningOld(v) == [new |-> v + 1, ret |-> v]
AtomicAdd(v) == [new |-> v + 1, ret |-> v + 1]

\* fmt.Sprintf("%s-%d", ctx.Value(utils.ContextServerID("ServerID")), cid)
ConnectionID(server, n) == <<server, "-", n>>

\* conn, err := listener.Accept(); go server.handleConnection(ctx, conn)
Accept(a) ==
    /\ apc[a] = "listening"
    /\ apc' = [apc EXCEPT ![a] = "handleConnection"]
    /\ UNCHANGED <<connID, cid, ctxConnID>>

\* server.ACL.RegisterConnection(&conn); connRW := ...;
\* cid := server.connID.Add(1)
ConnIDAdd(a) ==
    /\ apc[a] = "handleConnection"
    /\ LET r == AtomicAdd(connID) IN
         /\ connID' = r.new
         /\ cid' = [cid EXCEPT ![a] = r.ret]
    /\ apc' = [apc EXCEPT ![a] = "WithValue"]
    /\ UNCHANGED ctxConnID

\* ctx = context.WithValue(ctx, utils.ContextConnID("ConnectionID"), ...)
WithConnectionID(a) ==
    /\ apc[a] = "WithValue"
    /\ ctxConnID' = [ctxConnID EXCEPT ![a] = ConnectionID(ServerID, cid[a])]
    /\ apc' = [apc EXCEPT ![a] = "loop"]
    /\ UNCHANGED <<connID, cid>>

AcceptIdle ==
    /\ connID = 0
    /\ apc = [a \in Sockets |-> "listening"]
    /\ cid = [a \in Sockets |-> 0]
    /\ ctxConnID = [a \in Sockets |-> <<>>]

DispatcherIdle ==
    /\ clustered = FALSE
    /\ raftLeader = FALSE
    /\ raftLog = <<>>
    /\ committed = <<>>
    /\ dpc = [c \in Conns |-> "ReadMessage"]
    /\ msg = [c \in Conns |-> Malformed]
    /\ cmd = [c \in Conns |-> <<>>]
    /\ command = [c \in Conns |-> ZeroServerCommand]
    /\ synchronize = [c \in Conns |-> FALSE]
    /\ out = [c \in Conns |-> <<>>]
    /\ nRead = 0
    /\ decoded = [c \in Conns |-> 0]
    /\ done = [c \in Conns |-> <<>>]
    /\ readErr = [c \in Conns |-> NoError]
    /\ authz = [c \in Conns |-> NotAsked]

\* the server after Start: modules loaded, standalone or in a cluster, and
\* the accepted connections about to read their first frame
DispatcherInit ==
    /\ KeyspaceInit
    /\ commands = LoadModulesFrom(EmptyMap, 1)
    /\ regPhase = "serving"
    /\ loads = Len(Plugins)
    /\ registered = <<>>
    /\ returned = [n \in LookupNames |-> {}]
    /\ clustered \in BOOLEAN
    /\ raftLeader \in {l \in BOOLEAN : l => clustered}
    /\ raftLog = <<>>
    /\ committed = <<>>
    /\ dpc = [c \in Conns |-> "ReadMessage"]
    /\ msg = [c \in Conns |-> Malformed]
    /\ cmd = [c \in Conns |-> <<>>]
    /\ command = [c \in Conns |-> ZeroServerCommand]
    /\ synchronize = [c \in Conns |-> FALSE]
    /\ out = [c \in Conns |-> <<>>]
    /\ nRead = 0
    /\ decoded = [c \in Conns |-> 0]
    /\ done = [c \in Conns |-> <<>>]
    /\ readErr = [c \in Conns |-> NoError]
    /\ authz = [c \in Conns |-> NotAsked]
    /\ PubSubIdle
    /\ ReplicationIdle
    /\ LinkedListIdle
    /\ AcceptIdle

DispatcherNext ==
    /\ fault = "none"
    /\ \/ \E c \in Conns :
            \/ ReadMessage(c)
            \/ DecodeStep(c)
            \/ Authorize(c)
            \/ ExecuteLocal(c)
            \/ RaftApply(c)
            \/ NotLeader(c)
            \/ ApplyFuture(c)
       \/ LeadershipChange
    /\ UNCHANGED <<klocks, rvars, pvars, fvars, lvars, avars>>

DispatcherSpec == DispatcherInit /\ [][DispatcherNext]_vars

RegistryInit ==
    /\ KeyspaceInit /\ RegistryIdle /\ DispatcherIdle /\ PubSubIdle
    /\ ReplicationIdle /\ LinkedListIdle /\ AcceptIdle

RegistryNext ==
    /\ \/ \E list \in PluginCommandLists : LoadCommands(loads + 1, list)
       \/ StartServing
       \/ \E name \in LookupNames : Lookup(name)
    /\ UNCHANGED <<kvars, dvars, pvars, fvars, lvars, avars>>

RegistrySpec == RegistryInit /\ [][RegistryNext]_vars

\* a standalone server whose connections subscribe, are published to, read
\* their messages and reach EOF
PubSubInit == DispatcherInit /\ ~clustered

PubSubNext ==
    \/ /\ \E c \in Conns :
            \/ \E chans \in ArgLists(Channels) : Subscribe(c, chans)
            \/ \E pats \in ArgLists(Patterns) : PSubscribe(c, pats)
            \/ MessageRead(c)
       /\ UNCHANGED <<kvars, rvars, dvars, fvars, lvars, avars>>
    \/ /\ \E ch \in Channels, payload \in Payloads : Publish(ch, payload)
       /\ UNCHANGED <<kvars, rvars, dvars, fvars, lvars, avars>>
    \/ \* EOF on the connection: the read loop ends, conn.Close()
       /\ \E c \in Conns : ReadMessage(c) /\ dpc'[c] = "Closed"
       /\ UNCHANGED <<klocks, rvars, pvars, fvars, lvars, avars>>

PubSubSpec == PubSubInit /\ [][PubSubNext]_vars

\* frames of the replicated and of the local path
ReplicatedFrames ==
    { Frame(<< <<"S","E","T">>, <<"k">>, <<"v">> >>),
      Frame(<< <<"g","e","t">>, <<"k">> >>) }

\* the cluster seen from its leader: connections send commands, the followers
\* apply what the leader has committed
ReplicationInit == DispatcherInit /\ clustered /\ raftLeader

ReplicationNext ==
    \/ /\ DispatcherNext
       /\ raftLeader' = raftLeader        \* for as long as this node leads
       /\ \A c \in Conns :
            (dpc[c] # "Decode" /\ dpc'[c] = "Decode") => msg'[c] \in ReplicatedFrames
    \/ /\ \E f \in Followers : FollowerApply(f) \/ FollowerStop(f)
       /\ UNCHANGED <<kvars, rvars, dvars, pvars, lvars, avars>>

ReplicationSpec ==
    /\ ReplicationInit
    /\ [][ReplicationNext]_vars
    /\ \A f \in Followers : WF_vars(FollowerApply(f) /\ UNCHANGED <<kvars, rvars, dvars, pvars, lvars, avars>>)

\* a list in linear or ring mode, and any sequence of Add and Remove calls
LinkedListInit ==
    /\ KeyspaceInit /\ RegistryIdle /\ DispatcherIdle /\ PubSubIdle
    /\ ReplicationIdle /\ AcceptIdle
    /\ \E ring \in BOOLEAN : llist = NewLinkedList(ring)
    /\ lop = <<"none", "">>
    /\ ref = <<>>
    /\ lfault = "none"

LinkedListNext ==
    /\ \E value \in ListValues : AddCall(value) \/ RemoveCall(value)
    /\ UNCHANGED <<kvars, rvars, dvars, pvars, fvars, avars>>

LinkedListSpec == LinkedListInit /\ [][LinkedListNext]_vars

\* a server accepting connections
AcceptInit ==
    /\ KeyspaceInit /\ RegistryIdle /\ DispatcherIdle /\ PubSubIdle
    /\ ReplicationIdle /\ LinkedListIdle /\ AcceptIdle

AcceptNext ==
    /\ \E a \in Sockets : Accept(a) \/ ConnIDAdd(a) \/ WithConnectionID(a)
    /\ UNCHANGED <<kvars, rvars, dvars, pvars, fvars, lvars>>

AcceptSpec == AcceptInit /\ [][AcceptNext]_vars

\* a keyspace with one key more, so that a caller holding one key can ask
\* for another
WideKeys == 1..(NumKeys + 1)

WideKeyspaceInit ==
    /\ store = [k \in WideKeys |-> NoValue]
    /\ keyLocks = [k \in WideKeys |-> NULL]
    /\ keyCreationLock = NONE
    /\ rwmutex = [l \in LockIds |-> NewRWMutex]
    /\ nextLock = 0
    /\ mapWrite = <<>>
    /\ kpc = [c \in Callers |-> "idle"]
    /\ kkey = [c \in Callers |-> 1]
    /\ ctxDone = [c \in Callers |-> FALSE]
    /\ ctxCause = [c \in Callers |-> <<>>]
    /\ kret = [c \in Callers |-> NoReturn]
    /\ held = [c \in Callers |-> [k \in WideKeys |-> "none"]]
    /\ installs = [k \in WideKeys |-> 0]
    /\ fault = "none"

ContentionInit ==
    /\ WideKeyspaceInit /\ RegistryIdle /\ DispatcherIdle /\ PubSubIdle
    /\ ReplicationIdle /\ LinkedListIdle /\ AcceptIdle

\* a step of caller c in a keyspace API call, or its start of a call or
\* release of a key it holds
KeyspaceStep(c) ==
    \/ \E k \in WideKeys : CallKeyLock(c, k)
    \/ KeyLock(c)
    \/ \E k \in WideKeys : CallKeyRLock(c, k)
    \/ KeyRLock(c)
    \/ \E k \in WideKeys : KeyUnlock(c, k)
    \/ \E k \in WideKeys : KeyRUnlock(c, k)
    \/ \E k \in WideKeys : CallCreateKeyAndLock(c, k)
    \/ CreateKeyAndLock_Gate(c)
    \/ CreateKeyAndLock_New(c)
    \/ CreateKeyAndLock_Store(c)
    \/ CreateKeyAndLock_KeyLock(c)

ContentionNext ==
    /\ fault = "none"
    /\ UNCHANGED <<rvars, dvars, pvars, fvars, lvars, avars>>
    /\ \E c \in Callers : KeyspaceStep(c) \/ CancelCtx(c)

ContentionSpec == ContentionInit /\ [][ContentionNext]_vars

\* callers whose contexts are never cancelled
ReleaseNext ==
    /\ fault = "none"
    /\ UNCHANGED <<rvars, dvars, pvars, fvars, lvars, avars>>
    /\ \E c \in Callers : KeyspaceStep(c)

ReleaseSpec == ContentionInit /\ [][ReleaseNext]_vars

Init ==
    /\ KeyspaceInit /\ RegistryIdle /\ DispatcherIdle /\ PubSubIdle
    /\ ReplicationIdle /\ LinkedListIdle /\ AcceptIdle

Next ==
    /\ fault = "none"
    /\ UNCHANGED <<rvars, dvars, pvars, fvars, lvars, avars>>
    /\ \E c \in Callers :
         \/ \E k \in Keys : CallKeyLock(c, k)
         \/ KeyLock(c)
         \/ \E k \in Keys : CallKeyRLock(c, k)
         \/ KeyRLock(c)
         \/ CancelCtx(c)
         \/ \E k \in Keys : KeyUnlock(c, k)
         \/ \E k \in Keys : KeyRUnlock(c, k)
         \/ \E k \in Keys : CallCreateKeyAndLock(c, k)
         \/ CreateKeyAndLock_Gate(c)
         \/ CreateKeyAndLock_New(c)
         \/ CreateKeyAndLock_Store(c)
         \/ CreateKeyAndLock_KeyLock(c)

Spec == Init /\ [][Next]_vars

(***************************************************************************)
(* Properties                                                              *)
(***************************************************************************)
Writers(k) == {c \in Callers : held[c][k] = "w"}
Readers(k) == {c \in Callers : held[c][k] = "r"}

\* C1: for every key, the callers holding its lock are at most one writer and
\* no reader, or any number of readers and no writer; never two writers.
C1_ReadersOrOneWriter ==
    \A k \in Keys :
        /\ Cardinality(Writers(k)) <= 1
        /\ Writers(k) # {} => Readers(k) = {}

\* a writer holds a key while another caller polls for it, and elsewhere
\* every caller reads the same key
C1_Witness ==
    \E k \in Keys, c1, c2 \in Callers :
        /\ c1 # c2
        /\ held[c1][k] = "w"
        /\ kpc[c2] \in {"KeyLock", "KeyRLock"}
        /\ kkey[c2] = k
        /\ ~ctxDone[c2]

\* C2: CreateKeyAndLock is atomic on an absent key: at most one caller ever
\* finds the key absent and installs its lock, the installed lock is never
\* replaced, and the caller that found the key present holds it only once the
\* installer no longer does (it acquires only after the KeyUnlock).
C2_CreateKeyAndLockAtomic ==
    \A k \in Keys :
        /\ installs[k]
             + Cardinality({c \in Callers : kpc[c] \in {"ckl_new", "ckl_store"}
                                            /\ kkey[c] = k}) <= 1
        /\ (keyLocks[k] # NULL) = (installs[k] = 1)
        /\ Cardinality(Writers(k)) <= 1

\* two callers are in CreateKeyAndLock on one key: one installed the lock
\* and holds it, the other found the key present and polls for it
C2_Witness ==
    \E k \in Keys, c1, c2 \in Callers :
        /\ c1 # c2
        /\ installs[k] = 1
        /\ held[c1][k] = "w"
        /\ kpc[c2] = "ckl_poll" /\ kkey[c2] = k

\* C3: no caller holds the creation gate while it polls for a key's writer
\* lock.
C3_GateReleasedBeforePolling ==
    \A c \in Callers : ~(kpc[c] = "ckl_poll" /\ keyCreationLock = c)

ReachedDecoding(e) == e.path # "read_error"

\* C4: on each connection every frame that reached decoding has exactly one
\* response, written before the next frame is read, and the responses are
\* in the order of the frames.
C4_OneResponsePerFrameInOrder ==
    \A c \in Conns :
        LET answered == SelectSeq(done[c], ReachedDecoding) IN
        /\ Len(answered) = (IF dpc[c] \in {"ReadMessage", "Closed"}
                            THEN decoded[c] ELSE decoded[c] - 1)
        /\ Len(out[c]) = Len(answered)
        /\ \A i \in 1..Len(out[c]) : out[c][i] = answered[i].line

\* a connection has read two frames, answered the first through the
\* replicated path and the second locally, and is reading again
C4_Witness ==
    \E c \in Conns :
        /\ dpc[c] = "ReadMessage"
        /\ Len(out[c]) = 2
        /\ Len(done[c]) = 2
        /\ done[c][1].path = "applied"
        /\ done[c][2].path = "local"

IsErrorLine(line) == Len(line) > 0 /\ line[1] \in {"-", "-Error "}

\* C5: the dispatcher never faults; a decode failure, an unknown command and
\* an ACL denial each produce one error line and no handler call, and the
\* unknown command X produces "-command X not supported".
C5_ErrorsBecomeErrorLines ==
    /\ fault = "none"
    /\ \A c \in Conns : \A i \in 1..Len(done[c]) :
         LET e == done[c][i] IN
         /\ e.path \in {"decode_error", "unknown", "denied"}
              => e.handler = "none" /\ IsErrorLine(e.line)
         /\ e.path = "unknown"
              => e.line = <<"-", "command ">> \o e.cmd[1] \o <<" not supported", "\r\n\n">>

\* the sync flag the registry gives a command vector: that of the subcommand
\* named by its second token when the command has one, the command's otherwise
C6_ExpectedSync(cmdvec) ==
    LET key == CHOOSE k \in DOMAIN commands : ToLower(k) = ToLower(cmdvec[1])
        subs == commands[key].Command.SubCommands
        named == {i \in 1..Len(subs) : Len(cmdvec) >= 2 /\ subs[i].Command = cmdvec[2]}
    IN IF named # {} THEN \A i \in named : subs[i].Sync
       ELSE commands[key].Command.Sync

RoutedPaths == {"local", "apply_error", "unprocessable", "applied", "not_leader"}

\* C6: an authorized command runs its handler locally exactly when the node
\* is not clustered or the effective sync is false; when the node is
\* clustered and the effective sync is true the dispatcher never calls the
\* handler itself.
C6_RoutingByEffectiveSync ==
    \A c \in Conns :
        /\ \A i \in 1..Len(done[c]) :
             LET e == done[c][i] IN
             e.path \in RoutedPaths =>
                IF ~clustered \/ ~C6_ExpectedSync(e.cmd)
                THEN e.path = "local" /\ e.handler = "local"
                ELSE e.path # "local" /\ e.handler # "local"
        /\ dpc[c] = "applyFuture" => clustered /\ C6_ExpectedSync(cmd[c])

\* on a clustered follower a command whose own sync is true ran locally
\* because its resolved subcommand's sync is false
C6_Witness ==
    \E c \in Conns : \E i \in 1..Len(done[c]) :
        /\ done[c][i].onFollower
        /\ done[c][i].cmd = << <<"c","f","g">>, <<"g","e","t">> >>
        /\ done[c][i].handler = "local"

\* C7: when a clustered node that is not the leader routes an authorized
\* command whose effective sync is true, that command gets the not-leader error line, nothing
\* is submitted to the log, no handler runs, and lock table and store stay
\* as they were.
C7_NotLeaderRejected ==
    [][\A c \in Conns :
          (/\ dpc[c] = "Route" /\ dpc'[c] # "Route"
           /\ clustered /\ C6_ExpectedSync(cmd[c]) /\ ~raftLeader)
          => /\ out'[c] = Append(out[c], NotLeaderLine)
             /\ dpc'[c] = "ReadMessage"
             /\ done'[c][Len(done'[c])].handler = "none"
             /\ raftLog' = raftLog
             /\ store' = store
             /\ keyLocks' = keyLocks]_vars

\* a sync command was rejected on a follower after the store had been written
C7_Witness ==
    \E c \in Conns : \E i \in 1..Len(done[c]) :
        /\ done[c][i].path = "not_leader"
        /\ done[c][i].line = NotLeaderLine
        /\ clustered

\* C8: lookups of the upper-case and of the lower-case form of a name, and
\* repeated lookups of one name, all return the same command.
C8_LookupCaseInsensitive ==
    \A n \in LookupNames :
        (ToUpper(n) \in LookupNames /\ ToLower(n) \in LookupNames)
        => Cardinality({r.command : r \in returned[ToUpper(n)] \cup returned[ToLower(n)]}) <= 1

\* C9: once loading is over, the registry holds one entry per name up to
\* letter case, and a lookup in any case returns the command registered last
\* under that name.
C9_LastRegistrationWins ==
    regPhase = "serving" =>
    \A n \in LookupNames :
        LET regs == {i \in 1..Len(registered) : EqualFold(registered[i].Command.Command, n)}
        IN regs # {} =>
            LET last == CHOOSE i \in regs : \A j \in regs : j <= i IN
            /\ Cardinality({k \in DOMAIN commands : EqualFold(k, n)}) = 1
            /\ \A r \in returned[n] : r.command = registered[last]

\* C10: a frame read that fails with an error other than EOF ends the read
\* loop and closes the connection: a failed read is the last thing its
\* connection did, and the connection is closed.
C10_ReadErrorCloses ==
    \A c \in Conns : \A i \in 1..Len(done[c]) :
        done[c][i].path = "read_error" => (i = Len(done[c]) /\ dpc[c] = "Closed")

\* C11: a connection whose read loop has ended and which is closed is in no
\* channel index and in no pattern index, and a publish enqueues nothing for
\* it.
C11_TeardownRemovesSubscriptions ==
    [][\A c \in Conns :
          dpc'[c] = "Closed" =>
             /\ \A ch \in Channels : c \notin channelIndex'[ch]
             /\ \A p \in Patterns : c \notin patternIndex'[p]
             /\ (dpc[c] = "Closed" => Len(queue'[c]) <= Len(queue[c]))]_vars

\* C12: every step that looks a key up in the lock table (to acquire or to
\* release its lock) or inserts into the table is taken by the caller that
\* holds the creation gate, and no lookup ever overlaps an insertion.
C12_TableAccessUnderGate ==
    [][/\ fault' # "concurrent map read and map write"
       /\ \A c \in Callers, k \in Keys :
            held'[c][k] # held[c][k] => keyCreationLock = c]_vars

\* C13: a caller polling in KeyLock or KeyRLock holds no lock on the key; when
\* the call returns Failed the context was done, the error is the context's
\* cause and no lock, table entry or holder changed; when it returns Acquired
\* the error is nil and the caller holds the key's lock in the requested mode.
C13_LockReturns ==
    [][\A c \in Callers :
          kpc[c] \in {"KeyLock", "KeyRLock"} =>
             LET k == kkey[c]
                 mode == IF kpc[c] = "KeyLock" THEN "w" ELSE "r"
             IN
             /\ held[c][k] = "none"
             /\ kpc'[c] = "idle" =>
                  IF kret'[c].ok
                  THEN /\ kret'[c].err = <<>>
                       /\ held'[c][k] = mode
                       /\ keyLocks[k] # NULL
                       /\ IF mode = "w"
                          THEN rwmutex'[keyLocks[k]] = [w |-> TRUE, r |-> 0]
                          ELSE /\ ~rwmutex'[keyLocks[k]].w
                               /\ rwmutex'[keyLocks[k]].r = rwmutex[keyLocks[k]].r + 1
                  ELSE /\ ctxDone[c]
                       /\ kret'[c].err \in CtxCauses
                       /\ kret'[c].err = ctxCause[c]
                       /\ held' = held
                       /\ rwmutex' = rwmutex
                       /\ keyLocks' = keyLocks]_vars

\* a KeyLock call has returned Failed with the deadline's cause while another
\* caller holds the key, and a KeyRLock call has returned Acquired
C13_Witness ==
    \E c1, c2 \in Callers :
        /\ kret[c1] = [call |-> "KeyLock", ok |-> FALSE,
                       err |-> <<"context deadline exceeded">>]
        /\ kret[c2].call = "KeyRLock" /\ kret[c2].ok
        /\ \E k \in Keys : held[c2][k] = "r"

RECURSIVE WalkFrom(_, _, _)
WalkFrom(l, n, fuel) ==
    IF n = NULL \/ n = l.head \/ fuel = 0 THEN <<>>
    ELSE <<l.node[n].value>> \o WalkFrom(l, l.node[n].next, fuel - 1)

ListContent(l) ==
    IF l.head = NULL THEN <<>>
    ELSE <<l.node[l.head].value>> \o WalkFrom(l, l.node[l.head].next, l.n)

Occurrences(seq, value) == Cardinality({ i \in 1..Len(seq) : seq[i] = value })

\* C16: in linear and in ring mode, after any sequence of Add and Remove
\* calls that returned, Contains(v) is true exactly when v is in the reference
\* sequence (append on Add, delete the first occurrence on Remove); in
\* particular Contains(v) is true right after Add(v).
C16_ContainsMatchesReference ==
    lfault = "none" =>
        \A v \in ListValues :
            Contains(llist, v) = (IF \E i \in 1..Len(ref) : ref[i] = v
                                  THEN "true" ELSE "false")

\* C17: in linear and in ring mode, a Remove(v) on a list holding several
\* nodes equal to v takes out exactly the first of them: one node fewer equal
\* to v, every other node still present and in its original relative order.
C17_RemoveFirstMatchOnly ==
    [][(lop'[1] = "Remove" /\ Occurrences(ListContent(llist), lop'[2]) >= 2)
        => /\ lfault' = "none"
           /\ ListContent(llist') = DeleteFirst(ListContent(llist), lop'[2])]_vars

\* the iteration of connection c that ends with this step, if one does
Finishing(c) == done'[c][Len(done'[c])]
Finishes(c) == Len(done'[c]) > Len(done[c])

\* C18: authorization precedes execution.  In every iteration of the read
\* loop a handler runs, or the command is submitted to the consensus log,
\* only after ACL.AuthorizeConnection has returned no error for that same
\* command vector and resolved subcommand; a denied command causes neither.
C18_AuthorizationPrecedesExecution ==
    [][\A c \in Conns :
        LET submits == /\ Len(raftLog') > Len(raftLog)
                       /\ raftLog'[Len(raftLog')].ConnectionID = c
            runs == Finishes(c) /\ Finishing(c).handler # "none"
            denied == Finishes(c) /\ Finishing(c).path = "denied"
        IN /\ (submits \/ runs) =>
                /\ authz[c].asked
                /\ authz[c].err = NoError
                /\ authz[c].cmd = cmd[c]
                /\ authz[c].sc = GetSubCommand(command[c].Command, cmd[c])
           /\ submits => raftLog'[Len(raftLog')].CMD = authz[c].cmd
           /\ runs => Finishing(c).cmd = authz[c].cmd
           /\ denied => /\ Finishing(c).handler = "none"
                        /\ raftLog' = raftLog
                        /\ store' = store
                        /\ committed' = committed]_vars

\* one connection had a command denied, and another command authorized,
\* submitted to the log and run by the apply path
C18_Witness ==
    \E c \in Conns : \E i, j \in 1..Len(done[c]) :
        /\ done[c][i].path = "denied"
        /\ done[c][j].handler = "apply"
        /\ \E k \in 1..Len(raftLog) : raftLog[k].CMD = done[c][j].cmd

\* connection c takes a step of utils.ReadMessage: every such step moves the
\* loop's position or records a finished iteration
ReadsFrame(c) ==
    dpc[c] = "ReadMessage" /\ (dpc'[c] # dpc[c] \/ done'[c] # done[c])

\* C19: on reading a frame, EOF ends the read loop and closes the connection;
\* any other read error writes no response, leaves the connection open and
\* returns the dispatcher to Reading for the next frame.
C19_EofClosesOtherErrorsContinue ==
    [][\A c \in Conns : ReadsFrame(c) =>
          /\ readErr'[c] = EOF => dpc'[c] = "Closed"
          /\ readErr'[c] \notin {NoError, EOF} =>
                /\ out'[c] = out[c]
                /\ dpc'[c] = "ReadMessage"
                /\ Finishes(c) /\ Finishing(c).path = "read_error"]_vars

\* a connection met a read error that was not EOF, read on, and then met EOF
C19_Witness ==
    \E c \in Conns :
        /\ dpc[c] = "Closed"
        /\ readErr[c] = EOF
        /\ \E i \in 1..Len(done[c]) : done[c][i].path = "read_error"

\* the finished iterations of all connections in which a handler returned an
\* error
HandlerErrors ==
    { e \in UNION { { done[c][i] : i \in 1..Len(done[c]) } : c \in Conns } :
        e.handler # "none" /\ e.herr # NoError }

\* C20: a handler error reaches the client verbatim as -<reason> whatever the
\* execution path: for the same handler error, the line written after the
\* command ran through the replicated apply path on the leader is identical
\* to the line written after it ran locally.
C20_HandlerErrorSameOnBothPaths ==
    /\ \A e \in HandlerErrors :
          /\ Len(e.line) >= 1 + Len(e.herr)
          /\ e.line[1] = "-"
          /\ SubSeq(e.line, 2, 1 + Len(e.herr)) = e.herr
    /\ \A a, b \in HandlerErrors :
          (a.handler = "local" /\ b.handler = "apply" /\ a.herr = b.herr)
              => a.line = b.line

\* the connections whose connID.Add(1) has returned
Numbered == { a \in Sockets : apc[a] \in {"WithValue", "loop"} }

\* C21: connection IDs are unique and monotonically assigned.  For any number
\* of connections accepted concurrently, the numbers N drawn are distinct and
\* are exactly 1..(number of connections numbered), each ID is serverID-N, and
\* a connection that draws its number after another one did (so every
\* connection accepted after that one's assignment) gets a larger N.
C21_ConnectionIDsUniqueMonotonic ==
    /\ [](/\ \A a, b \in Numbered : a # b => cid[a] # cid[b]
          /\ { cid[a] : a \in Numbered } = 1..Cardinality(Numbered)
          /\ \A a \in Sockets :
                apc[a] = "loop" => ctxConnID[a] = <<ServerID, "-", cid[a]>>)
    /\ [][\A a \in Sockets :
            (apc[a] \in {"listening", "handleConnection"} /\ apc'[a] = "WithValue")
                => \A b \in Numbered : cid'[a] > cid[b]]_vars

\* every accepted connection runs its loop under its own ID, and the one
\* accepted first did not draw the first number
C21_Witness ==
    /\ \A a \in Sockets : apc[a] = "loop"
    /\ cid[1] > 1

\* C22: the lock table is monotonic.  Once CreateKeyAndLock has installed a
\* lock for a key, KeyExists of the key is true in every later state and the
\* lock object mapped to the key is never replaced by a different one, under
\* any interleaving of keyspace operations.
C22_LockTableMonotonic ==
    [][\A k \in Keys :
          keyLocks[k] # NULL =>
              /\ keyLocks'[k] # NULL
              /\ keyLocks'[k] = keyLocks[k]]_vars

\* a key's lock was installed once, released by its creator, and then
\* acquired by a second CreateKeyAndLock call that found the key present
C22_Witness ==
    \E k \in Keys, c \in Callers :
        /\ installs[k] = 1
        /\ keyLocks[k] # NULL
        /\ kret[c] = [call |-> "ckl_poll", ok |-> TRUE, err |-> <<>>]
        /\ held[c][k] = "w"

\* caller c created key k and has not released it: it is about to complete
\* the table assignment, or CreateKeyAndLock returned Acquired to it on the
\* absent key and it still holds the writer lock
CreatorHolds(c, k) ==
    \/ kpc[c] = "ckl_store" /\ kkey[c] = k
    \/ held[c][k] = "w" /\ kret[c].call = "ckl_store"

\* C23: a newly created key's lock is already held in write mode when it
\* becomes visible in the lock table: from the moment the key exists until
\* its creator's KeyUnlock, no KeyLock, KeyRLock or CreateKeyAndLock of
\* another caller returns Acquired for the key.
C23_NewLockHeldWhenVisible ==
    [][\A k \in Keys, c0 \in Callers :
          CreatorHolds(c0, k) =>
              /\ rwmutex[IF kpc[c0] = "ckl_store" THEN mapWrite[2] ELSE keyLocks[k]].w
              /\ \A c \in Callers \ {c0} : held'[c][k] = "none"]_vars

\* the creator holds its new key while another caller polls for the key in
\* KeyRLock, its context not cancelled
C23_Witness ==
    \E k \in Keys, c0, c \in Callers :
        /\ c0 # c
        /\ held[c0][k] = "w" /\ kret[c0].call = "ckl_store"
        /\ kpc[c] = "KeyRLock" /\ kkey[c] = k /\ ~ctxDone[c]

\* C24: KeyLock and KeyRLock called for a key that was never created (no
\* entry in the lock table) return Acquired or Failed(cause) like any other
\* call; they do not fault.
C24_LockOfAbsentKeyReturns ==
    [][\A c \in Callers :
          (/\ kpc[c] \in {"KeyLock", "KeyRLock"}
           /\ keyLocks[kkey[c]] = NULL
           /\ mapWrite = <<>>
           /\ kpc'[c] # kpc[c] \/ fault' # fault)
              => /\ fault' = "none"
                 /\ kpc'[c] = "idle"]_vars

\* caller b is inside CreateKeyAndLock polling for a key that is held, its
\* context not cancelled: how long it polls is up to the holder
PollsForHeldKey(b) ==
    /\ kpc[b] = "ckl_poll"
    /\ ~ctxDone[b]
    /\ keyLocks[kkey[b]] # NULL
    /\ ~TryLock(rwmutex[keyLocks[kkey[b]]])

\* caller c cannot take a step before caller b leaves CreateKeyAndLock
WaitsFor(c, b) ==
    /\ kpc[c] = "ckl_gate"
    /\ keyCreationLock = b
    /\ b # c

\* C25: key-lock acquisition honours cancellation.  Once its context is
\* cancelled, a pending KeyLock, KeyRLock or CreateKeyAndLock call returns
\* Failed(cause) within a bounded number of steps whatever the other callers
\* do: it never waits for a caller that is itself waiting inside
\* CreateKeyAndLock for a held key.
C25_CancelledCallNeverWaits ==
    \A c, b \in Callers :
        (kpc[c] # "idle" /\ ctxDone[c]) => ~(WaitsFor(c, b) /\ PollsForHeldKey(b))

\* C26: the lock protocol is deadlock-free for callers that release what they
\* acquire and whose contexts are never cancelled: when A holds K1's writer
\* lock and calls CreateKeyAndLock on an absent key K2 while B is inside
\* CreateKeyAndLock(K1), A is never left waiting for B while B waits for A's
\* K1, so A acquires K2 and, after A releases K1, B acquires K1.
C26_NoDeadlockOnSecondKey ==
    \A A, B \in Callers : \A K1, K2 \in WideKeys :
        ~(/\ held[A][K1] = "w"
          /\ kkey[A] = K2 /\ keyLocks[K2] = NULL
          /\ WaitsFor(A, B)
          /\ kkey[B] = K1 /\ PollsForHeldKey(B))

\* C27: in linear mode, after any sequence of Add and Remove calls, Iter
\* yields each remaining element exactly once, in insertion order, and then
\* closes its channel; on an empty list it closes without yielding anything.
C27_IterYieldsRemainingInOrder ==
    (~llist.ring /\ lfault = "none") =>
        Iter(llist) = [sent |-> ref, closed |-> TRUE]

\* the nodes a walk from head meets, in order: to nil, or back to head, or
\* cut off on a cycle that avoids head
RECURSIVE PathFrom(_, _, _)
PathFrom(l, n, fuel) ==
    IF n = NULL \/ n = l.head \/ fuel = 0 THEN <<>>
    ELSE <<n>> \o PathFrom(l, l.node[n].next, fuel - 1)

Path(l) ==
    IF l.head = NULL THEN <<>>
    ELSE <<l.head>> \o PathFrom(l, l.node[l.head].next, l.n)

\* the node the walk ends on, and where its next leads
LastOf(l) == Path(l)[Len(Path(l))]

\* C28: topology after any sequence of Add and Remove calls.  In linear mode
\* the last node reachable from head has next = nil and no next leads back
\* to an earlier node.  In ring mode with two or more elements, following
\* next from head visits every remaining element once and returns to head:
\* tail.next = head and tail is the last node before head.
C28_Topology ==
    (lfault = "none" /\ llist.head # NULL) =>
        IF ~llist.ring
        THEN llist.node[LastOf(llist)].next = NULL
        ELSE Len(ref) >= 2 =>
                /\ ListContent(llist) = ref
                /\ llist.node[LastOf(llist)].next = llist.head
                /\ llist.tail = LastOf(llist)

\* C29: Remove never faults.  In every list state reachable by Add and Remove
\* calls, in either mode and for every value, Remove returns without
\* dereferencing nil; a ring list is empty once its elements have been removed
\* one by one, in any order; and Remove of a value that is not in the list
\* leaves head, tail and every link unchanged.
C29_RemoveNeverFaults ==
    [][lop'[1] = "Remove" =>
          /\ lfault' = "none"
          /\ (llist.ring /\ ref' = <<>>) => llist'.head = NULL
          /\ Occurrences(ref, lop'[2]) = 0 => llist' = llist]_vars

\* C30: representation invariant of head and tail, in either mode: if head is
\* nil then tail is nil, and a tail that is not nil is a node reachable from
\* head by following next, never a node that was removed from the list.
C30_TailReachableFromHead ==
    lfault = "none" =>
        /\ llist.head = NULL => llist.tail = NULL
        /\ llist.tail # NULL =>
              \E i \in 1..Len(Path(llist)) : Path(llist)[i] = llist.tail

====
